---- MODULE Spec2Model ----
(***************************************************************************)
(* A model of the DatePicker component of wakushi-date-picker              *)
(* (src/lib/components/DatePicker/index.tsx).                              *)
(*                                                                         *)
(* Text is a sequence of one-character strings, so that the length of a    *)
(* string and its digits are observable.  A JavaScript Date is a record    *)
(* [nan, y, m, d, h]: the local calendar date (m is 0..11) and the local   *)
(* hour of the day; nan marks an Invalid Date.  Time-zone offsets are a    *)
(* whole number of hours, and no daylight saving is modelled.              *)
(***************************************************************************)
EXTENDS Integers, Sequences, FiniteSets, TLC

\* ------------------------------------------------------------------ bounds
\* The machine runs MaxTzOffset hours west of UTC or as many hours east of it.
MaxTzOffset == 1

\* ------------------------------------------------------- program constants
MAX_DAYS_IN_GRID == 42
YEARS_EDGE == 2000
MODAL_SAFE_SPACE_IN_PX == 300

\* ---------------------------------------------------------------- strings
DigitChars == <<"0", "1", "2", "3", "4", "5", "6", "7", "8", "9">>

IsDigit(c) == \E i \in 1..10 : DigitChars[i] = c

DigitVal(c) == (CHOOSE i \in 1..10 : DigitChars[i] = c) - 1

\* String(n) for a non-negative integer n.
RECURSIVE NumToStr(_)
NumToStr(n) ==
    IF n < 10 THEN <<DigitChars[n + 1]>>
    ELSE NumToStr(n \div 10) \o <<DigitChars[(n % 10) + 1]>>

\* s.padStart(n, c)
RECURSIVE padStart(_, _, _)
padStart(s, n, c) == IF Len(s) >= n THEN s ELSE padStart(<<c>> \o s, n, c)

AllDigits(s) == Len(s) > 0 /\ \A i \in 1..Len(s) : IsDigit(s[i])

RECURSIVE StrToNum(_)
StrToNum(s) ==
    IF Len(s) = 0 THEN 0
    ELSE 10 * StrToNum(SubSeq(s, 1, Len(s) - 1)) + DigitVal(s[Len(s)])

NaNText == <<"N", "a", "N">>

\* --------------------------------------------------------------- calendar
IsLeapYear(y) == (y % 4 = 0 /\ y % 100 # 0) \/ y % 400 = 0

\* Days of month m (0..11) of year y in the proleptic Gregorian calendar.
DaysInMonth(y, m) ==
    IF m = 1 THEN (IF IsLeapYear(y) THEN 29 ELSE 28)
    ELSE IF m \in {3, 5, 8, 10} THEN 30 ELSE 31

InvalidDate == [nan |-> TRUE, y |-> 0, m |-> 0, d |-> 0, h |-> 0]

\* MakeDay of ECMAScript: any month number and any day number are carried
\* over into the neighbouring months and years.
RECURSIVE MakeDate(_, _, _, _)
MakeDate(y, m, d, h) ==
    LET yy == y + (m \div 12)
        mm == m % 12
    IN  IF d > DaysInMonth(yy, mm) THEN MakeDate(yy, mm + 1, d - DaysInMonth(yy, mm), h)
        ELSE IF d < 1 THEN
            LET py == yy + ((mm - 1) \div 12)
                pm == (mm - 1) % 12
            IN  MakeDate(py, pm, d + DaysInMonth(py, pm), h)
        ELSE [nan |-> FALSE, y |-> yy, m |-> mm, d |-> d, h |-> h]

\* Date.prototype setters; each leaves an Invalid Date invalid.
setMonth(date, m) == IF date.nan THEN date ELSE MakeDate(date.y, m, date.d, date.h)
setFullYear(date, y) == IF date.nan THEN date ELSE MakeDate(y, date.m, date.d, date.h)
setDate(date, d) == IF date.nan THEN date ELSE MakeDate(date.y, date.m, d, date.h)
setHours0(date) == IF date.nan THEN date ELSE [date EXCEPT !.h = 0]

\* new Date(year, monthIndex, day): a year 0..99 means 1900 + year.
DateOfFields(y, m, d) == MakeDate(IF y \in 0..99 THEN 1900 + y ELSE y, m, d, 0)

\* Days from 1970-01-01 to the civil date (y, m, d).
DaysFromCivil(y, m, d) ==
    LET yy == IF m <= 1 THEN y - 1 ELSE y
        era == yy \div 400
        yoe == yy - era * 400
        mp == (m + 10) % 12
        doy == ((153 * mp + 2) \div 5) + d - 1
        doe == yoe * 365 + (yoe \div 4) - (yoe \div 100) + doy
    IN  era * 146097 + doe - 719468

\* Date.prototype.getDay: 0 is Sunday, 1 is Monday.
getDay(date) == (DaysFromCivil(date.y, date.m, date.d) + 4) % 7

\* ------------------------------------------------- the Date(string) parser
\* The instant 00:00 UTC of (y, m, d), read in a zone tz hours east of UTC.
FromUTC(y, m, d, tz) ==
    IF tz >= 0 THEN MakeDate(y, m, d, tz) ELSE MakeDate(y, m, d - 1, 24 + tz)

DashPositions(s) == {i \in 1..Len(s) : s[i] = "-"}

\* The three "-"-separated fields of s, or <<>> when s has another shape.
DashFields(s) ==
    LET D == DashPositions(s)
    IN  IF Cardinality(D) # 2 THEN <<>>
        ELSE LET i1 == CHOOSE i \in D : \A j \in D : i <= j
                 i2 == CHOOSE i \in D : \A j \in D : j <= i
             IN  <<SubSeq(s, 1, i1 - 1), SubSeq(s, i1 + 1, i2 - 1), SubSeq(s, i2 + 1, Len(s))>>

\* The two-digit-year rule of the legacy (non-ISO) date formats.
LegacyYear(n) == IF n \in 0..49 THEN 2000 + n ELSE IF n \in 50..99 THEN 1900 + n ELSE n

\* new Date(s).  The ISO form YYYY-MM-DD is 00:00 UTC of that day.  A day
\* number beyond the month's last day and every non-ISO form are left to
\* the engine: a lenient engine carries the day over, and reads three
\* numbers as year-month-day in local time unless the first one could be a
\* day (then month-day-year); a strict engine answers Invalid Date.
ParseDate(s, tz, lenient) ==
    LET f == DashFields(s)
    IN  IF f = <<>> \/ ~(AllDigits(f[1]) /\ AllDigits(f[2]) /\ AllDigits(f[3])) THEN InvalidDate
        ELSE LET n1 == StrToNum(f[1])
                 n2 == StrToNum(f[2])
                 n3 == StrToNum(f[3])
             IN  IF Len(f[1]) = 4 /\ Len(f[2]) = 2 /\ Len(f[3]) = 2 THEN
                     IF n2 \notin 1..12 \/ n3 \notin 1..31 THEN InvalidDate
                     ELSE IF n3 <= DaysInMonth(n1, n2 - 1) \/ lenient THEN FromUTC(n1, n2 - 1, n3, tz)
                     ELSE InvalidDate
                 ELSE IF ~lenient THEN InvalidDate
                 ELSE LET ymd == n1 \notin 1..31
                          year == LegacyYear(IF ymd THEN n1 ELSE n3)
                          month == IF ymd THEN n2 ELSE n1
                          day == IF ymd THEN n3 ELSE n2
                      IN  IF month \in 1..12 /\ day \in 1..31 THEN MakeDate(year, month - 1, day, 0)
                          ELSE InvalidDate

\* ------------------------------------------------------------- formatDate
formatDate(date) ==
    LET year == IF date.nan THEN NaNText ELSE NumToStr(date.y)
        month == IF date.nan THEN NaNText ELSE padStart(NumToStr(date.m + 1), 2, "0")
        day == IF date.nan THEN NaNText ELSE padStart(NumToStr(date.d), 2, "0")
    IN  year \o <<"-">> \o month \o <<"-">> \o day

\* ------------------------------------------------------------------ state
VARIABLES
    now,                \* what new Date() answers: the machine's local date and hour
    tzOffset,           \* the machine's offset from UTC, in hours east
    lenientParser,      \* whether the engine's Date parser is the lenient one
    mounted,            \* the component is in the tree
    pendingEffect,      \* a render with changed dependencies is committed, its effect is due
    listeners,          \* the click listeners registered on the document
    showCalendar,
    calendarPosition,
    daysOfMonth,
    selectedMonth,
    selectedYear,
    selectedDate,
    inputValue,
    onChangeCalls,      \* the arguments of the onChange calls of the latest event
    lastEvent           \* the latest event handled

env == <<now, tzOffset, lenientParser>>
vars == <<now, tzOffset, lenientParser, mounted, pendingEffect, listeners,
          showCalendar, calendarPosition, daysOfMonth, selectedMonth, selectedYear,
          selectedDate, inputValue, onChangeCalls, lastEvent>>

\* ----------------------------------------------------------------- inputs
T_Empty == <<>>
T_Partial == <<"2", "0", "2", "4", "-", "0", "3", "-", "1">>
T_BadMonth == <<"2", "0", "2", "4", "-", "1", "3", "-", "0", "1">>
T_Mar15 == <<"2", "0", "2", "4", "-", "0", "3", "-", "1", "5">>
T_Dec31_999 == <<"0", "9", "9", "9", "-", "1", "2", "-", "3", "1">>
\* The texts the input field's change event carries.
TextInputs == {T_Partial, T_BadMonth, T_Mar15, T_Dec31_999}

\* The value props the component is mounted with.
ValueInputs == {T_Empty, T_Mar15}

\* The dates and hours at which the component runs.
NowInputs ==
    { [nan |-> FALSE, y |-> 2024, m |-> 0, d |-> 31, h |-> 13],
      [nan |-> FALSE, y |-> 2024, m |-> 5, d |-> 15, h |-> 0] }

TzInputs == {0 - MaxTzOffset, MaxTzOffset}

\* The options of the month selector that are chosen.
MonthInputs == {0, 3, 11}

\* The positions in the year selector's option list that are chosen.
YearIndexInputs == {2000}

\* The grid cells that are clicked.
CellInputs == {1, 20, 42}

\* The input field's distance from the top of the viewport, in px.
TopInputs == {299, 300}

\* -------------------------------------------------------- date helpers
\* getNow
getNow(n) == setHours0(n)

\* getCurrentTimeFrame
getCurrentTimeFrame(n, month, year) == setHours0(setFullYear(setMonth(n, month), year))

\* getDaysAmountInMonth
getDaysAmountInMonth(date) ==
    LET nextMonth == DateOfFields(date.y, date.m + 1, 1)
    IN  setDate(nextMonth, nextMonth.d - 1).d

\* getYearsSelectorArray: the first year offered and the number of options.
YearRange(n) ==
    LET currentYear == getNow(n).y
        yearRangeStart == currentYear - YEARS_EDGE
        yearRangeEnd == currentYear + YEARS_EDGE
        rangeSize == yearRangeEnd - yearRangeStart
    IN  [start |-> yearRangeStart, size |-> rangeSize]

\* The option at position i (from 1) of the year selector.
YearOption(n, i) == YearRange(n).start + (i - 1)

getYearsSelectorArray(n) == [i \in 1..YearRange(n).size |-> YearOption(n, i)]

\* ---------------------------------------------------------- buildDaysGrid
daysBeforeMonday_SundayFirst(firstOfMonth) == getDay(firstOfMonth)

\* The cells borrowed from the previous month: the grid's week starts on Monday.
daysBeforeMonday(firstOfMonth) ==
    LET weekday == getDay(firstOfMonth) - 1
    IN  IF weekday < 0 THEN 6 ELSE weekday

buildDaysGrid(n, month, year) ==
    LET timeFrame == getCurrentTimeFrame(n, month, year)
        previousMonth == setMonth(timeFrame, timeFrame.m - 1)
        previousMonthDaysAmount == getDaysAmountInMonth(previousMonth)
        firstOfMonth == setDate(timeFrame, 1)
        currentMonthDaysAmount == getDaysAmountInMonth(timeFrame)
        leading == daysBeforeMonday(firstOfMonth)
        previousMonthLastDays ==
            [j \in 1..leading |->
                [dayNumber |-> previousMonthDaysAmount - (leading - j + 1) + 1,
                 month |-> previousMonth.m]]
        daysGrid ==
            previousMonthLastDays \o
            [i \in 1..currentMonthDaysAmount |-> [dayNumber |-> i, month |-> firstOfMonth.m]]
        nextMonth == setMonth(timeFrame, timeFrame.m + 1)
        remainingDays == MAX_DAYS_IN_GRID - Len(daysGrid)
    IN  daysGrid \o [i \in 1..remainingDays |-> [dayNumber |-> i, month |-> nextMonth.m]]

\* ------------------------------------------------------------------ mount
\* An event handled: its kind, the grid index clicked (else 0) and the text
\* entered (else empty).
Event(kind, index, text) == [kind |-> kind, index |-> index, text |-> text]

\* The state after the first render: the useState initialisers have run, the
\* effect of the first render is due.
Init ==
    /\ now \in NowInputs
    /\ tzOffset \in TzInputs
    /\ lenientParser \in BOOLEAN
    /\ mounted = TRUE
    /\ pendingEffect = TRUE
    /\ listeners = 0
    /\ showCalendar = FALSE
    /\ calendarPosition = "top"
    /\ daysOfMonth = <<>>
    /\ selectedMonth = getNow(now).m
    /\ selectedYear = getNow(now).y
    /\ \E value \in ValueInputs :
           selectedDate = (IF value # <<>> THEN ParseDate(value, tzOffset, lenientParser) ELSE now)
    /\ inputValue = formatDate(selectedDate)
    /\ onChangeCalls = <<>>
    /\ lastEvent = Event("mount", 0, <<>>)

\* ----------------------------------------------------------------- effect
\* The effect of a render whose selectedMonth or selectedYear changed: the
\* previous run's cleanup removes its listener, the grid is rebuilt and a
\* listener is added.  React runs it before it handles the next event.
RunEffect_NoCleanup ==
    /\ mounted
    /\ pendingEffect
    /\ daysOfMonth' = buildDaysGrid(now, selectedMonth, selectedYear)
    /\ listeners' = listeners + 1
    /\ pendingEffect' = FALSE
    /\ UNCHANGED <<env, mounted, showCalendar, calendarPosition, selectedMonth, selectedYear,
                   selectedDate, inputValue, onChangeCalls, lastEvent>>

RunEffect ==
    /\ mounted
    /\ pendingEffect
    /\ daysOfMonth' = buildDaysGrid(now, selectedMonth, selectedYear)
    /\ listeners' = (IF listeners > 0 THEN listeners - 1 ELSE listeners) + 1
    /\ pendingEffect' = FALSE
    /\ UNCHANGED <<env, mounted, showCalendar, calendarPosition, selectedMonth, selectedYear,
                   selectedDate, inputValue, onChangeCalls, lastEvent>>

DepsChanged_MonthOnly(month, year) == month # selectedMonth

\* Whether a render with these dependencies has an effect to run.
DepsChanged(month, year) == month # selectedMonth \/ year # selectedYear

\* ----------------------------------------------------- handleClickOutside
\* The document's click listener, run after React's own handlers and the
\* render they caused: shown tells whether the overlay is then in the
\* document, target is where the click landed ("input", "modal", "outside").
handleClickOutside_NoContainsCheck(shown, target) ==
    IF ~shown THEN shown
    ELSE IF target # "input" THEN FALSE
    ELSE shown

handleClickOutside(shown, target) ==
    IF ~shown THEN shown
    ELSE IF target # "modal" /\ target # "input" THEN FALSE
    ELSE shown

\* What the document's listeners, if any is registered, make of a click.
AfterDocumentClick(shown, target) ==
    IF listeners > 0 THEN handleClickOutside(shown, target) ELSE shown

\* ------------------------------------------------------- onDateInputClick
positionModal_StrictlyAbove(top) == IF top > MODAL_SAFE_SPACE_IN_PX THEN "top" ELSE "bottom"

positionModal(top) == IF top >= MODAL_SAFE_SPACE_IN_PX THEN "top" ELSE "bottom"

onDateInputClick(top) ==
    /\ mounted
    /\ ~pendingEffect
    /\ calendarPosition' = positionModal(top)
    /\ showCalendar' = AfterDocumentClick(~showCalendar, "input")
    /\ onChangeCalls' = <<>>
    /\ lastEvent' = Event("inputClick", 0, <<>>)
    /\ UNCHANGED <<env, mounted, pendingEffect, listeners, daysOfMonth, selectedMonth,
                   selectedYear, selectedDate, inputValue>>

\* ----------------------------------------------------------- onSelectDate
\* The string `${selectedYear}-${month + 1}-${dayNumber}`.
CellDateText(year, gridDay) ==
    NumToStr(year) \o <<"-">> \o NumToStr(gridDay.month + 1) \o <<"-">> \o NumToStr(gridDay.dayNumber)

\* The date a click on gridDay commits.
SelectedCellDate(year, gridDay, tz, lenient) ==
    setHours0(ParseDate(CellDateText(year, gridDay), tz, lenient))

onSelectDate(i) ==
    /\ mounted
    /\ ~pendingEffect
    /\ showCalendar
    /\ i \in 1..Len(daysOfMonth)
    /\ LET date == SelectedCellDate(selectedYear, daysOfMonth[i], tzOffset, lenientParser)
       IN  /\ selectedDate' = date
           /\ inputValue' = formatDate(date)
           /\ onChangeCalls' = <<formatDate(date)>>
    /\ showCalendar' = AfterDocumentClick(FALSE, "cell")
    /\ lastEvent' = Event("select", i, <<>>)
    /\ UNCHANGED <<env, mounted, pendingEffect, listeners, calendarPosition, daysOfMonth,
                   selectedMonth, selectedYear>>

\* ------------------------------------------------- clicks handled by no one
\* A click outside the component, or on the overlay but on no day cell.
DocumentClick(target) ==
    /\ mounted
    /\ ~pendingEffect
    /\ target = "modal" => showCalendar
    /\ showCalendar' = AfterDocumentClick(showCalendar, target)
    /\ onChangeCalls' = <<>>
    /\ lastEvent' = Event(IF target = "modal" THEN "clickModal" ELSE "clickOutside", 0, <<>>)
    /\ UNCHANGED <<env, mounted, pendingEffect, listeners, calendarPosition, daysOfMonth,
                   selectedMonth, selectedYear, selectedDate, inputValue>>

\* ------------------------------------------------- month and year selectors
onMonthChange_Commits(m) ==
    /\ mounted
    /\ ~pendingEffect
    /\ showCalendar
    /\ m # selectedMonth
    /\ selectedMonth' = m
    /\ pendingEffect' = TRUE
    /\ onChangeCalls' = <<formatDate(selectedDate)>>
    /\ lastEvent' = Event("month", 0, <<>>)
    /\ UNCHANGED <<env, mounted, listeners, showCalendar, calendarPosition, daysOfMonth,
                   selectedYear, selectedDate, inputValue>>

onMonthChange(m) ==
    /\ mounted
    /\ ~pendingEffect
    /\ showCalendar
    /\ m # selectedMonth
    /\ selectedMonth' = m
    /\ pendingEffect' = DepsChanged(m, selectedYear)
    /\ onChangeCalls' = <<>>
    /\ lastEvent' = Event("month", 0, <<>>)
    /\ UNCHANGED <<env, mounted, listeners, showCalendar, calendarPosition, daysOfMonth,
                   selectedYear, selectedDate, inputValue>>

onYearChange(i) ==
    /\ mounted
    /\ ~pendingEffect
    /\ showCalendar
    /\ i \in 1..YearRange(now).size
    /\ LET year == YearOption(now, i)
       IN  /\ year # selectedYear
           /\ selectedYear' = year
           /\ pendingEffect' = DepsChanged(selectedMonth, year)
    /\ onChangeCalls' = <<>>
    /\ lastEvent' = Event("year", 0, <<>>)
    /\ UNCHANGED <<env, mounted, listeners, showCalendar, calendarPosition, daysOfMonth,
                   selectedMonth, selectedDate, inputValue>>

\* ------------------------------------------------- handleManualDateChange
\* Whether the handler goes on to commit the text newDate.
ManualCommits_NoNaNCheck(newDate, date) == Len(newDate) = 10

ManualCommits_AnyLength(newDate, date) == ~date.nan

ManualCommits(newDate, date) == Len(newDate) = 10 /\ ~date.nan

handleManualDateChange(newDate) ==
    /\ mounted
    /\ ~pendingEffect
    /\ inputValue' = newDate
    /\ LET date == ParseDate(newDate, tzOffset, lenientParser)
       IN  IF ManualCommits(newDate, date)
           THEN /\ selectedYear' = date.y
                /\ selectedMonth' = date.m
                /\ selectedDate' = date
                /\ onChangeCalls' = <<formatDate(date)>>
                /\ pendingEffect' = DepsChanged(date.m, date.y)
           ELSE /\ onChangeCalls' = <<>>
                /\ UNCHANGED <<selectedYear, selectedMonth, selectedDate, pendingEffect>>
    /\ lastEvent' = Event("manual", 0, newDate)
    /\ UNCHANGED <<env, mounted, listeners, showCalendar, calendarPosition, daysOfMonth>>

\* ---------------------------------------------------------------- unmount
\* The component leaves the tree: the effect's cleanup removes its listener
\* and the component's state is discarded (the variables take blank values).
Unmount ==
    /\ mounted
    /\ ~pendingEffect
    /\ mounted' = FALSE
    /\ listeners' = (IF listeners > 0 THEN listeners - 1 ELSE listeners)
    /\ showCalendar' = FALSE
    /\ calendarPosition' = "top"
    /\ daysOfMonth' = <<>>
    /\ selectedMonth' = 0
    /\ selectedYear' = 0
    /\ selectedDate' = InvalidDate
    /\ inputValue' = <<>>
    /\ onChangeCalls' = <<>>
    /\ lastEvent' = Event("unmount", 0, <<>>)
    /\ UNCHANGED <<env, pendingEffect>>

\* ------------------------------------------------------------------ render
\* isSelectedDay: whether the cell gridDay is rendered with the class "selected".
isSelectedDay(gridDay) ==
    /\ ~selectedDate.nan
    /\ selectedDate.m = gridDay.month
    /\ selectedDate.d = gridDay.dayNumber
    /\ selectedYear = selectedDate.y

\* getLocalizedDayNames: the seven header labels, each given by the weekday
\* (getDay) of the day of the reference week it is formatted from.
getLocalizedDayNames ==
    LET weekStart == DateOfFields(2024, 0, 1)
    IN  [i \in 1..7 |-> getDay(setDate(weekStart, weekStart.d + (i - 1)))]

\* ---------------------------------------------------------- specification
Next ==
    \/ RunEffect
    \/ \E top \in TopInputs : onDateInputClick(top)
    \/ \E i \in CellInputs : onSelectDate(i)
    \/ \E target \in {"outside", "modal"} : DocumentClick(target)
    \/ \E m \in MonthInputs : onMonthChange(m)
    \/ \E i \in YearIndexInputs : onYearChange(i)
    \/ \E newDate \in TextInputs : handleManualDateChange(newDate)
    \/ Unmount

Spec == Init /\ [][Next]_vars

\* ================================================================= claims
\* The stored grid is the one of the current selectedMonth and selectedYear:
\* the component is mounted and no effect is due.
GridReady == mounted /\ ~pendingEffect

\* The days from the preceding Monday to the 1st of month (0..11) of year.
LeadingDays(month, year) == (DaysFromCivil(year, month, 1) + 3) % 7

\* The grid of the calendar for the viewed month: the last days of the month
\* before, the month itself, the first days of the month after.
CalendarGrid(month, year) ==
    LET k == LeadingDays(month, year)
        lastDay == DaysInMonth(year, month)
        prevMonth == (month + 11) % 12
        prevYear == IF month = 0 THEN year - 1 ELSE year
        prevLast == DaysInMonth(prevYear, prevMonth)
        nextMonth == (month + 1) % 12
    IN  [j \in 1..k |-> [dayNumber |-> prevLast - k + j, month |-> prevMonth]]
        \o [i \in 1..lastDay |-> [dayNumber |-> i, month |-> month]]
        \o [i \in 1..(MAX_DAYS_IN_GRID - k - lastDay) |-> [dayNumber |-> i, month |-> nextMonth]]

\* C1: for every viewed (month, year) the grid has exactly 42 entries and the
\* entry for day 1 of the viewed month sits at index k (counted from 0), k
\* being the days from the preceding Monday to the weekday of the 1st.
C1_FirstOfMonthAtLeadingDays ==
    GridReady =>
        /\ Len(daysOfMonth) = MAX_DAYS_IN_GRID
        /\ daysOfMonth[LeadingDays(selectedMonth, selectedYear) + 1]
               = [dayNumber |-> 1, month |-> selectedMonth]

\* C2: for every viewed (month, year) the grid is, in order, the last k days
\* of the previous month, days 1..lastDay of the viewed month and the first
\* 42 - k - lastDay days of the next month, each tagged with its month.
C2_GridIsCalendarGrid ==
    GridReady => daysOfMonth = CalendarGrid(selectedMonth, selectedYear)

Parses(s) == ~ParseDate(s, tzOffset, lenientParser).nan

\* C4: onChange is invoked only as part of a grid-cell selection or of a
\* manual text change whose text has length 10 and parses to a valid date;
\* no other event invokes it.
C4_OnChangeOnlyOnCommit ==
    onChangeCalls # <<>> =>
        \/ lastEvent.kind = "select"
        \/ lastEvent.kind = "manual" /\ Len(lastEvent.text) = 10 /\ Parses(lastEvent.text)

\* A manual text change has invoked onChange.
C4_Witness == onChangeCalls # <<>> /\ lastEvent.kind = "manual"

\* The date (year, month, day) at local midnight.
LocalMidnight(year, month, day) == [nan |-> FALSE, y |-> year, m |-> month, d |-> day, h |-> 0]

\* C5: selecting any grid cell sets selectedDate to the date (selectedYear,
\* cell.month, cell.dayNumber) at local midnight, sets inputValue to its
\* formatted form, invokes onChange exactly once with that string and closes
\* the overlay in the same step.  Stated for the engines whose parser is the
\* lenient one, the ones that read every cell's text as a date.
C5_SelectCommitsCellDate ==
    (mounted /\ lenientParser /\ lastEvent.kind = "select") =>
        LET cell == daysOfMonth[lastEvent.index]
            date == LocalMidnight(selectedYear, cell.month, cell.dayNumber)
        IN  /\ selectedDate = date
            /\ inputValue = formatDate(date)
            /\ onChangeCalls = <<formatDate(date)>>
            /\ ~showCalendar

\* Whether s is YYYY-MM-DD: 10 characters, a 4-digit year, a 2-digit month
\* 01..12 and a 2-digit day 01..31.
IsPaddedDate(s) ==
    /\ Len(s) = 10
    /\ s[5] = "-" /\ s[8] = "-"
    /\ \A i \in {1, 2, 3, 4, 6, 7, 9, 10} : IsDigit(s[i])
    /\ StrToNum(SubSeq(s, 6, 7)) \in 1..12
    /\ StrToNum(SubSeq(s, 9, 10)) \in 1..31

\* C6: every string passed to onChange is a zero-padded YYYY-MM-DD string.
C6_OnChangeArgumentIsPadded ==
    \A i \in 1..Len(onChangeCalls) : IsPaddedDate(onChangeCalls[i])

\* Whether s is YYYY-MM-DD and names an existing calendar day.
IsIsoDate(s) ==
    /\ IsPaddedDate(s)
    /\ StrToNum(SubSeq(s, 9, 10))
           <= DaysInMonth(StrToNum(SubSeq(s, 1, 4)), StrToNum(SubSeq(s, 6, 7)) - 1)

\* C7: for every valid ISO date string s of length 10 entered manually, in
\* every time zone, the commit invokes onChange with exactly s.
C7_ManualRoundTrip ==
    (lastEvent.kind = "manual" /\ IsIsoDate(lastEvent.text)) => onChangeCalls = <<lastEvent.text>>

\* C8: a manual text change whose text has a length other than 10 makes
\* inputValue the raw text, leaves selectedDate, selectedMonth, selectedYear,
\* the grid, showCalendar and calendarPosition unchanged and does not invoke
\* onChange.
C8_OtherLengthsOnlyMirror ==
    [][(lastEvent'.kind = "manual" /\ Len(lastEvent'.text) # 10) =>
          /\ inputValue' = lastEvent'.text
          /\ onChangeCalls' = <<>>
          /\ UNCHANGED <<selectedDate, selectedMonth, selectedYear, daysOfMonth,
                         showCalendar, calendarPosition, pendingEffect>>]_vars

\* A text of 9 characters has been entered while the overlay was open.
C8_Witness ==
    /\ lastEvent.kind = "manual" /\ Len(lastEvent.text) = 9
    /\ inputValue = T_Partial /\ showCalendar

\* C9: a manual text change of length 10 that cannot be parsed as a date does
\* not invoke onChange and leaves selectedDate, selectedMonth and
\* selectedYear unchanged; inputValue keeps the raw text.
C9_UnparseableIsIgnored ==
    [][(lastEvent'.kind = "manual" /\ Len(lastEvent'.text) = 10 /\ ~Parses(lastEvent'.text)) =>
          /\ inputValue' = lastEvent'.text
          /\ onChangeCalls' = <<>>
          /\ UNCHANGED <<selectedDate, selectedMonth, selectedYear>>]_vars

\* The text 2024-13-01 has been entered.
C9_Witness ==
    /\ lastEvent.kind = "manual" /\ lastEvent.text = T_BadMonth
    /\ inputValue = T_BadMonth /\ onChangeCalls = <<>>

\* C10: once open, the overlay of a mounted component becomes closed only by
\* a day selection or by a click outside both the overlay and the input.
C10_ClosedOnlyBySelectOrOutside ==
    [][(showCalendar /\ ~showCalendar' /\ mounted') =>
          lastEvent'.kind \in {"select", "clickOutside"}]_vars

\* C10, as amended: once open, the overlay of a mounted component becomes
\* closed only by a day selection, by a click outside both the overlay and
\* the input, or by a click on the input field, which toggles it.
C10_ClosedOnlyBySelectOutsideOrToggle ==
    [][(showCalendar /\ ~showCalendar' /\ mounted') =>
          lastEvent'.kind \in {"select", "clickOutside", "inputClick"}]_vars

\* A click on the input field has closed the open overlay.
C10_Witness == mounted /\ lastEvent.kind = "inputClick" /\ ~showCalendar

\* C11: from the closed state a click on the input field opens the overlay,
\* in position top exactly when the field's offset from the top of the
\* viewport is at least the 300px safe space and in position bottom
\* otherwise; the document's click listener, run for that same click, does
\* not close it again.
C11_InputClickOpensAndPositions ==
    [][\A top \in TopInputs :
          (onDateInputClick(top) /\ ~showCalendar) =>
              /\ showCalendar'
              /\ calendarPosition' = "top" <=> top >= 300
              /\ calendarPosition' = "bottom" <=> top < 300]_vars

\* A click on the input field, with the document's listener registered, has
\* opened the overlay below the field.
C11_Witness ==
    /\ mounted /\ listeners > 0 /\ lastEvent.kind = "inputClick"
    /\ showCalendar /\ calendarPosition = "bottom"

\* C12: a month or year selector change keeps the overlay open, leaves
\* selectedDate and inputValue unchanged and makes the effect due; the step
\* taken while the effect is due is the rebuild of the grid; and whenever no
\* effect is due the stored grid is the one buildDaysGrid makes for the
\* current selectedMonth and selectedYear.
C12_SelectorChangeRebuildsGrid ==
    [][/\ (lastEvent'.kind \in {"month", "year"}
              /\ (selectedMonth' # selectedMonth \/ selectedYear' # selectedYear)) =>
             /\ showCalendar /\ showCalendar'
             /\ UNCHANGED <<selectedDate, inputValue>>
             /\ pendingEffect'
       /\ pendingEffect =>
             /\ ~pendingEffect'
             /\ UNCHANGED <<selectedMonth, selectedYear, showCalendar, selectedDate, inputValue>>
       /\ (mounted' /\ ~pendingEffect') =>
             daysOfMonth' = buildDaysGrid(now', selectedMonth', selectedYear')]_vars

\* The year selector was changed and the grid has been rebuilt since, the
\* overlay still open.
C12_Witness ==
    /\ GridReady /\ lastEvent.kind = "year" /\ showCalendar /\ selectedYear = 2023
    /\ daysOfMonth = buildDaysGrid(now, selectedMonth, selectedYear)

\* The latest event committed a date: a cell selection, or a manual text
\* change that invoked onChange.
Committed == lastEvent.kind \in {"select", "manual"} /\ onChangeCalls # <<>>

\* C13: on mount, whether seeded from the value prop or from the current
\* date, and after every commit, selectedMonth and selectedYear are the month
\* and the year of selectedDate.
C13_ViewFollowsSelectedDate ==
    (mounted /\ ~selectedDate.nan /\ (lastEvent.kind = "mount" \/ Committed)) =>
        selectedMonth = selectedDate.m /\ selectedYear = selectedDate.y

\* C14: in every state selectedDate has the local time of day 00:00:00.
C14_SelectedDateAtMidnight ==
    (mounted /\ ~selectedDate.nan) => selectedDate.h = 0

\* C15: the grid is a function of the viewed (month, year) alone: built on
\* any other current date, for the same selectedMonth and selectedYear, it
\* is the same grid.
C15_GridIndependentOfToday ==
    GridReady =>
        \A n \in NowInputs : buildDaysGrid(n, selectedMonth, selectedYear) = daysOfMonth

\* C16: at most one click listener of the component is registered on the
\* document at any time; one is registered whenever the overlay is open and
\* after each run of the effect, which replaces the previous one; none is
\* registered once the component is unmounted.
C16_OneListenerWhileMounted ==
    /\ listeners \in {0, 1}
    /\ showCalendar => listeners = 1
    /\ GridReady => listeners = 1
    /\ ~mounted => listeners = 0

\* The month was changed with the overlay open and the effect has run again.
C16_Witness ==
    /\ GridReady /\ showCalendar /\ lastEvent.kind = "month" /\ listeners = 1

\* C17: the year selector offers every year from currentYear - 2000 to
\* currentYear + 2000 inclusive, in ascending order and without duplicates.
C17_YearsSpanBothEdges ==
    mounted =>
        LET years == getYearsSelectorArray(now)
            currentYear == getNow(now).y
        IN  /\ years[1] = currentYear - 2000
            /\ years[Len(years)] = currentYear + 2000
            /\ \A i \in 1..(Len(years) - 1) : years[i + 1] = years[i] + 1

\* The calendar date shown at grid position i (from 1) of the view of
\* (month, year): position LeadingDays + 1 shows the 1st of the month.
DisplayedDate(i, month, year) == MakeDate(year, month, i - LeadingDays(month, year), 0)

\* C18: selecting a grid cell commits exactly the calendar date the cell
\* displays at its grid position, in the previous year for a December cell
\* shown before January and in the next year for a January cell shown after
\* December.  Stated for the machines on which the text of every cell is
\* read as the local date it spells (a lenient parser, not west of UTC) and
\* for the days of the month on which the grid is the calendar's.
C18_SelectCommitsDisplayedDate ==
    (mounted /\ lenientParser /\ tzOffset >= 0 /\ now.d <= 28 /\ lastEvent.kind = "select") =>
        selectedDate = DisplayedDate(lastEvent.index, selectedMonth, selectedYear)

\* The grid positions rendered as selected.
MarkedCells == {i \in 1..Len(daysOfMonth) : isSelectedDay(daysOfMonth[i])}

\* C19: with an up-to-date grid at most one cell is marked selected, and a
\* cell is marked only if the calendar date it displays (day, month and the
\* year of its grid position) is selectedDate.  Stated for the days of the
\* month on which the grid is the calendar's.
C19_MarkedCellIsSelectedDate ==
    (GridReady /\ showCalendar /\ now.d <= 28) =>
        /\ Cardinality(MarkedCells) <= 1
        /\ \A i \in MarkedCells :
              DisplayedDate(i, selectedMonth, selectedYear) = setHours0(selectedDate)

\* The calendar date a cell names by its day number and its month tag, in
\* the year of its grid position.
TaggedDate(i) ==
    LET cell == daysOfMonth[i]
        year == IF cell.month = 11 /\ selectedMonth = 0 THEN selectedYear - 1
                ELSE IF cell.month = 0 /\ selectedMonth = 11 THEN selectedYear + 1
                ELSE selectedYear
    IN  MakeDate(year, cell.month, cell.dayNumber, 0)

\* C20: the header labels are those of Monday to Sunday, in this order, and
\* for every view the cell at grid index i (from 0) names a date whose
\* weekday is the one of header column i mod 7.
C20_CellsUnderTheirWeekday ==
    GridReady =>
        /\ getLocalizedDayNames = <<1, 2, 3, 4, 5, 6, 0>>
        /\ \A i \in 0..(Len(daysOfMonth) - 1) :
              getDay(TaggedDate(i + 1)) = getLocalizedDayNames[(i % 7) + 1]

====
